---- MODULE Spec2Model ----
(***************************************************************************)
(* State-machine model of stormpy's simulator layer                        *)
(* (lib/stormpy/simulator.py): the factory create_simulator, the class     *)
(* SparseSimulator with its base class Simulator, and the two external     *)
(* collaborators they call, the sparse Model and the stepping engine       *)
(* _DiscreteTimeSparseModelSimulatorDouble.                                *)
(*                                                                         *)
(* Python values are encoded as records [t |-> type, i |-> Int, l |-> Str] *)
(* so that values of different Python types can be compared (Python's ==  *)
(* between an int and a str is False, TLC's = between them is an error).   *)
(* Python's assert statements are modelled as raising AssertionError.      *)
(***************************************************************************)
EXTENDS Integers, Sequences, FiniteSets, TLC

VARIABLES
    model,      \* the Model object handed to create_simulator
    created,    \* what create_simulator did: "uncreated", "SparseSimulator", "None", "raised"
    call,       \* the last call made on the simulators: [op, arg]
    sim,        \* the simulator object: its fields, its engine, the last call's outcome
    twin,       \* a second simulator, built on the same Model with the same seed
                \* argument and driven by the same calls
    first_restart   \* history: the first successful restart() of sim since its
                    \* modes last changed, and whether sim has moved since

vars == <<model, created, call, sim, twin, first_restart>>

---------------------------------------------------------------------------
(* Bounds of the model *)

\* explicit seeds are 0 .. MaxSeed
MaxSeed == 1
\* integer action arguments are -1 .. MaxIndex
MaxIndex == 2
\* the engine's pseudo-random generator has RngMod internal states
RngMod == 2

---------------------------------------------------------------------------
(* Python values *)

PyNone == [t |-> "NoneType", i |-> 0, l |-> ""]
PyInt(n) == [t |-> "int", i |-> n, l |-> ""]
PyStr(s) == [t |-> "str", i |-> 0, l |-> s]
PyBool(b) == [t |-> "bool", i |-> IF b THEN 1 ELSE 0, l |-> ""]
PyJson(n) == [t |-> "json", i |-> n, l |-> ""]

\* the enumerations' members
STATE_LEVEL == "STATE_LEVEL"
PROGRAM_LEVEL == "PROGRAM_LEVEL"
INDEX_LEVEL == "INDEX_LEVEL"
GLOBAL_NAMES == "GLOBAL_NAMES"
SimulatorObservationMode == {STATE_LEVEL, PROGRAM_LEVEL}
SimulatorActionMode == {INDEX_LEVEL, GLOBAL_NAMES}

\* the "no seed" argument (seed=None); explicit seeds are naturals
NoSeed == -1
Seeds == 0 .. MaxSeed

\* the exceptions the code raises, one name per raise site
NoExc == "none"
ErrObsModeType == "RuntimeError: Observation mode must be a SimulatorObservationMode"
ErrActModeType == "RuntimeError: Action mode must be a SimulatorActionMode"
ErrNoChoiceLabeling == "RuntimeError: Global names action mode requires model with choice labeling"
ErrNoValuations == "RuntimeError: Program level observations require model with state valuations"
ErrMultiLabel == "AssertionError: Unknown type of choice label, support not implemented"
ErrNotPomdp == "AssertionError: model_type == POMDP"
ErrProgramObs == "NotImplementedError: Program level observations are not implemented in storm"
ErrMustSpecify == "RuntimeError: Must specify an action in nondeterministic models."
ErrOnlyN == "RuntimeError: Only n actions available"
ErrNotFound == "ValueError: Could not find action"
ErrActionType == "ValueError: Unrecognized type of action"
ErrCheck == "AssertionError: check"
ErrNoneGetJson == "AttributeError: 'NoneType' object has no attribute 'get_json'"
ErrEngineArg == "TypeError: step(): incompatible function arguments"
ErrModelValuations == "RuntimeError: model has no state valuations"
ErrUnsupportedModel == "NotImplementedError: Currently, we only support simulators for sparse models."

NoRet == PyNone

---------------------------------------------------------------------------
(* The Model service.  A sparse model is a transition matrix whose rows    *)
(* (choices) are grouped by state; row r is listed at position r + 1.      *)

States == 0 .. 4
InitialState == 0
\* the marker of a row whose probabilities do not sum to one: the engine's
\* sampling loop falls through and reports failure
Fail == -1

\* nondeterministic models (MDP, POMDP): first row of each state's group
NondetRowGroupIndices == <<0, 2, 4, 6, 7, 8>>
NondetSucc == << <<1, 2>>, <<2>>, <<0>>, <<3>>, <<4>>, <<1, 3>>, <<3>>, <<3, Fail>> >>
NondetLabels == << {"a"}, {"b"}, {"a"}, {"a"}, {}, {"_act_0"}, {}, {"a", "b"} >>
NondetReward == <<1, 2, 0, 1, 2, 1, 0, 1>>

\* deterministic models (DTMC): one row per state
DetRowGroupIndices == <<0, 1, 2, 3, 4, 5>>
DetSucc == << <<1, 2>>, <<0>>, <<4>>, <<3>>, <<3, Fail>> >>
DetLabels == << {"a"}, {"a"}, {}, {}, {"a", "b"} >>
DetReward == <<1, 0, 2, 0, 1>>

ObservationClass == <<0, 1, 1, 2, 2>>
Valuation == <<10, 11, 12, 13, 14>>
SinkStates == {3}

is_nondeterministic_model(m) == m.model_type \in {"MDP", "POMDP"}

RowGroupIndices(m) ==
    IF is_nondeterministic_model(m) THEN NondetRowGroupIndices ELSE DetRowGroupIndices

get_nr_available_actions(m, state) ==
    RowGroupIndices(m)[state + 2] - RowGroupIndices(m)[state + 1]

get_choice_index(m, state, action_offset) ==
    RowGroupIndices(m)[state + 1] + action_offset

get_labels_of_choice(m, row) ==
    IF is_nondeterministic_model(m) THEN NondetLabels[row + 1] ELSE DetLabels[row + 1]

RowSucc(m, row) ==
    IF is_nondeterministic_model(m) THEN NondetSucc[row + 1] ELSE DetSucc[row + 1]

RowReward(m, row) ==
    IF is_nondeterministic_model(m) THEN NondetReward[row + 1] ELSE DetReward[row + 1]

get_observation(m, state) == PyInt(ObservationClass[state + 1])

is_sink_state(m, state) == state \in SinkStates

\* StateValuations.get_json(state)
get_json(state) == PyJson(Valuation[state + 1])

\* the models create_simulator may be given
SparseModels ==
    [ isModelBase : {TRUE}, is_sparse_model : {TRUE},
      model_type : {"DTMC", "MDP", "POMDP"},
      has_choice_labeling : BOOLEAN,
      has_state_valuations : BOOLEAN,
      \* what reading model.state_valuations does on a model without valuations
      \* (an empty optional is dereferenced): "raises" or "dangling"
      absent_valuations : {"raises", "dangling"} ]

OtherModels ==
    [ isModelBase : BOOLEAN, is_sparse_model : {FALSE},
      model_type : {"MDP"},
      has_choice_labeling : {FALSE},
      has_state_valuations : {FALSE},
      absent_valuations : {"raises"} ]

Models ==
    { m \in SparseModels : m.has_state_valuations => m.absent_valuations = "raises" }
    \cup OtherModels

---------------------------------------------------------------------------
(* The stepping engine _DiscreteTimeSparseModelSimulatorDouble.  Its state *)
(* lives in the simulator record s: current_state, last_reward, rng, and   *)
(* the bookkeeping fields seed_calls (number of set_seed calls so far) and *)
(* calls (the engine operations invoked during the last simulator call).   *)
(* Every operation returns [s, exc, ret].                                  *)

Result(s, exc, ret) == [s |-> s, exc |-> exc, ret |-> ret]

NextRng(r) == (r + 1) % RngMod

\* _DiscreteTimeSparseModelSimulatorDouble(model), with internal seed r
EngineNew(s, r) ==
    [s EXCEPT !.current_state = InitialState, !.last_reward = 0, !.rng = r]

\* engine.set_seed(seed)
EngineSetSeed(s, seed) ==
    [s EXCEPT !.rng = seed % RngMod, !.seed_calls = @ + 1]

\* engine.get_current_state()
get_current_state(s) == s.current_state

\* engine.get_last_reward()
get_last_reward(s) == s.last_reward

\* engine.step(action): a negative argument is refused by the binding (the
\* parameter is unsigned); otherwise one random number is drawn and the
\* successor is sampled from the row of the action
EngineStep(m, s, action) ==
    LET s1 == [s EXCEPT !.calls = Append(@, <<"step", action>>)] IN
    IF action < 0
    THEN Result(s1, ErrEngineArg, NoRet)
    ELSE LET s2 == [s1 EXCEPT !.rng = NextRng(@)] IN
         IF action >= get_nr_available_actions(m, s.current_state)
         THEN Result(s2, NoExc, FALSE)
         ELSE LET row == get_choice_index(m, s.current_state, action)
                  succ == RowSucc(m, row)
                  target == succ[(s.rng % Len(succ)) + 1]
              IN IF target = Fail
                 THEN Result(s2, NoExc, FALSE)
                 ELSE Result([s2 EXCEPT !.current_state = target,
                                        !.last_reward = RowReward(m, row)],
                             NoExc, TRUE)

\* engine.random_step(): draws the action, then steps
EngineRandomStep(m, s) ==
    LET s1 == [s EXCEPT !.calls = Append(@, <<"random_step", 0>>)]
        nr == get_nr_available_actions(m, s.current_state)
        action == s.rng % nr
        s2 == [s1 EXCEPT !.rng = NextRng(@)]
        row == get_choice_index(m, s.current_state, action)
        succ == RowSucc(m, row)
        target == succ[(s2.rng % Len(succ)) + 1]
        s3 == [s2 EXCEPT !.rng = NextRng(@)]
    IN IF target = Fail
       THEN Result(s3, NoExc, FALSE)
       ELSE Result([s3 EXCEPT !.current_state = target,
                              !.last_reward = RowReward(m, row)],
                   NoExc, TRUE)

\* engine.reset_to_initial_state()
EngineReset(s) ==
    [s EXCEPT !.current_state = InitialState, !.last_reward = 0,
              !.calls = Append(@, <<"reset_to_initial_state", 0>>)]

---------------------------------------------------------------------------
(* class Simulator *)

\* Simulator.__init__(seed)
Simulator_init(seed) ==
    [ seed |-> seed,
      observation_mode |-> STATE_LEVEL,
      action_mode |-> INDEX_LEVEL,
      full_observe |-> FALSE,
      state_valuations |-> "None",
      current_state |-> InitialState, last_reward |-> 0, rng |-> 0,
      seed_calls |-> 0, calls |-> <<>>,
      exc |-> NoExc, ret |-> NoRet ]

\* Simulator.set_observation_mode(mode)
Simulator_set_observation_mode(s, mode) ==
    IF mode \notin SimulatorObservationMode
    THEN Result(s, ErrObsModeType, NoRet)
    ELSE Result([s EXCEPT !.observation_mode = mode], NoExc, NoRet)

\* Simulator.set_action_mode(mode)
set_action_mode(m, s, mode) ==
    IF mode \notin SimulatorActionMode
    THEN Result(s, ErrActModeType, NoRet)
    ELSE Result([s EXCEPT !.action_mode = mode], NoExc, NoRet)

\* Simulator.set_full_observability(value)
set_full_observability(m, s, value) ==
    Result([s EXCEPT !.full_observe = value], NoExc, NoRet)

---------------------------------------------------------------------------
(* class SparseSimulator *)

\* the constructor as it would be if it never handed the seed to the engine
SparseSimulator_init_unseeded(m, seed, r) ==
    LET s0 == Simulator_init(seed)
        s1 == EngineNew(s0, r)
        s3 == [s1 EXCEPT !.state_valuations = "None"]
    IN set_full_observability(m, s3, m.model_type # "POMDP").s

\* SparseSimulator.__init__(model, seed); r is the seed the engine generates
\* for itself when it is constructed
SparseSimulator_init(m, seed, r) ==
    LET s0 == Simulator_init(seed)
        s1 == EngineNew(s0, r)
        s2 == IF seed # NoSeed THEN EngineSetSeed(s1, seed) ELSE s1
        s3 == [s2 EXCEPT !.state_valuations = "None"]
    IN set_full_observability(m, s3, m.model_type # "POMDP").s

\* SparseSimulator.nr_available_actions()
nr_available_actions(m, s) ==
    IF ~is_nondeterministic_model(m)
    THEN 1
    ELSE get_nr_available_actions(m, get_current_state(s))

\* the name of an action as it would be if unlabelled actions were numbered
\* from one
ActionName_one_based(m, s, action_offset) ==
    LET choice_label == get_labels_of_choice(m,
                            get_choice_index(m, get_current_state(s), action_offset))
    IN IF Cardinality(choice_label) = 0
       THEN PyStr("_act_" \o ToString(action_offset + 1))
       ELSE PyStr(CHOOSE l \in choice_label : TRUE)

\* the name available_actions gives to the action at action_offset
\* (defined when the choice carries at most one label)
ActionName(m, s, action_offset) ==
    LET choice_label == get_labels_of_choice(m,
                            get_choice_index(m, get_current_state(s), action_offset))
    IN IF Cardinality(choice_label) = 0
       THEN PyStr("_act_" \o ToString(action_offset))
       ELSE PyStr(CHOOSE l \in choice_label : TRUE)

\* available_actions in index mode, as it would be if the range computed at
\* the initial state were kept and reused
available_actions_index_stale(m, s) ==
    Result(s, NoExc,
           [k \in 1 .. nr_available_actions(m, [s EXCEPT !.current_state = InitialState])
              |-> PyInt(k - 1)])

\* available_actions, index mode (lines 103-104)
available_actions_index(m, s) ==
    Result(s, NoExc, [k \in 1 .. nr_available_actions(m, s) |-> PyInt(k - 1)])

\* available_actions in named mode, as it would be without the check for
\* choice labeling
available_actions_named_unchecked(m, s) ==
    IF \E o \in 0 .. nr_available_actions(m, s) - 1 :
          Cardinality(get_labels_of_choice(m,
              get_choice_index(m, get_current_state(s), o))) > 1
    THEN Result(s, ErrMultiLabel, NoRet)
    ELSE Result(s, NoExc,
                [k \in 1 .. nr_available_actions(m, s) |-> ActionName(m, s, k - 1)])

\* available_actions, named mode (lines 105-120)
available_actions_named(m, s) ==
    IF ~m.has_choice_labeling
    THEN Result(s, ErrNoChoiceLabeling, NoRet)
    ELSE IF \E o \in 0 .. nr_available_actions(m, s) - 1 :
              Cardinality(get_labels_of_choice(m,
                  get_choice_index(m, get_current_state(s), o))) > 1
    THEN Result(s, ErrMultiLabel, NoRet)
    ELSE Result(s, NoExc,
                [k \in 1 .. nr_available_actions(m, s) |-> ActionName(m, s, k - 1)])

\* SparseSimulator.available_actions(): ret is the sequence of actions
available_actions(m, s) ==
    IF s.action_mode = INDEX_LEVEL
    THEN available_actions_index(m, s)
    ELSE available_actions_named(m, s)

\* SparseSimulator._report_state()
report_state(m, s) ==
    IF s.observation_mode = STATE_LEVEL
    THEN Result(s, NoExc, PyInt(get_current_state(s)))
    ELSE IF s.state_valuations = "None"
    THEN Result(s, ErrNoneGetJson, NoRet)
    ELSE IF s.state_valuations = "dangling"
    THEN Result(s, NoExc, PyJson(-1))
    ELSE Result(s, NoExc, get_json(get_current_state(s)))

\* SparseSimulator._report_observation()
report_observation(m, s) ==
    IF m.model_type # "POMDP"
    THEN Result(s, ErrNotPomdp, NoRet)
    ELSE IF s.observation_mode = STATE_LEVEL
    THEN Result(s, NoExc, get_observation(m, get_current_state(s)))
    ELSE Result(s, ErrProgramObs, NoRet)

\* SparseSimulator._report_rewards()
report_rewards(m, s) == get_last_reward(s)

\* a StepResult: the pair (observation, reward)
StepResult(obs, reward) == [obs |-> obs, reward |-> reward]

\* SparseSimulator._report_result()
report_result(m, s) ==
    LET o == IF s.full_observe THEN report_state(m, s) ELSE report_observation(m, s)
    IN IF o.exc # NoExc
       THEN Result(s, o.exc, NoRet)
       ELSE Result(s, NoExc, StepResult(o.ret, report_rewards(m, s)))

\* the same as it would be without the assert on the engine's flag
CheckedReport_unchecked(m, e) ==
    IF e.exc # NoExc THEN Result(e.s, e.exc, NoRet)
    ELSE report_result(m, e.s)

\* "check = ...; assert check; return self._report_result()"
CheckedReport(m, e) ==
    IF e.exc # NoExc THEN Result(e.s, e.exc, NoRet)
    ELSE IF ~e.ret THEN Result(e.s, ErrCheck, NoRet)
    ELSE report_result(m, e.s)

\* SparseSimulator.random_step()
random_step(m, s) == CheckedReport(m, EngineRandomStep(m, s))

\* the first offset whose name equals the action, or -1 (action_index is None)
FindAction(av_actions, action) ==
    IF \E k \in 1 .. Len(av_actions) : av_actions[k] = action
    THEN (CHOOSE k \in 1 .. Len(av_actions) :
              /\ av_actions[k] = action
              /\ \A j \in 1 .. k - 1 : av_actions[j] # action) - 1
    ELSE -1

\* step with the action omitted, as it would be if an action were required
\* whenever the model is nondeterministic
step_omitted_strict(m, s) ==
    IF is_nondeterministic_model(m) /\ nr_available_actions(m, s) >= 1
    THEN Result(s, ErrMustSpecify, NoRet)
    ELSE CheckedReport(m, EngineStep(m, s, 0))

\* ... as it would be if it took the action after the first one
step_omitted_second(m, s) ==
    IF is_nondeterministic_model(m) /\ nr_available_actions(m, s) > 1
    THEN Result(s, ErrMustSpecify, NoRet)
    ELSE CheckedReport(m, EngineStep(m, s, 1))

\* step, action omitted (lines 162-166)
step_omitted(m, s) ==
    IF is_nondeterministic_model(m) /\ nr_available_actions(m, s) > 1
    THEN Result(s, ErrMustSpecify, NoRet)
    ELSE CheckedReport(m, EngineStep(m, s, 0))

\* step, integer action in index mode (lines 167-171)
step_index(m, s, action) ==
    IF action.i >= nr_available_actions(m, s)
    THEN Result(s, ErrOnlyN, NoRet)
    ELSE CheckedReport(m, EngineStep(m, s, action.i))

\* step, any action in named mode (lines 172-182)
step_named(m, s, action) ==
    LET av == available_actions(m, s) IN
    IF av.exc # NoExc
    THEN Result(s, av.exc, NoRet)
    ELSE LET action_index == FindAction(av.ret, action) IN
         IF action_index = -1
         THEN Result(s, ErrNotFound, NoRet)
         ELSE CheckedReport(m, EngineStep(m, s, action_index))

\* step as it would be if an integer were taken as an index in either mode
step_int_any_mode(m, s, action) ==
    IF action.t = "NoneType"
    THEN step_omitted(m, s)
    ELSE IF action.t = "int"
    THEN step_index(m, s, action)
    ELSE IF s.action_mode = GLOBAL_NAMES
    THEN step_named(m, s, action)
    ELSE Result(s, ErrActionType, NoRet)

\* SparseSimulator.step(action)
step(m, s, action) ==
    IF action.t = "NoneType"
    THEN step_omitted(m, s)
    ELSE IF action.t = "int" /\ s.action_mode = INDEX_LEVEL
    THEN step_index(m, s, action)
    ELSE IF s.action_mode = GLOBAL_NAMES
    THEN step_named(m, s, action)
    ELSE Result(s, ErrActionType, NoRet)

\* restart as it would be if it also put the full-observability flag back to
\* its default
restart_default_observability(m, s) ==
    report_result(m, EngineReset([s EXCEPT !.full_observe = (m.model_type # "POMDP")]))

\* restart as it would be if it reported without resetting the engine
restart_no_reset(m, s) == report_result(m, s)

\* SparseSimulator.restart()
restart(m, s) == report_result(m, EngineReset(s))

\* is_done as the base class Simulator has it (lines 48-54)
Simulator_is_done(m, s) == Result(s, NoExc, FALSE)

\* SparseSimulator.is_done()
is_done(m, s) == Result(s, NoExc, is_sink_state(m, get_current_state(s)))

\* SparseSimulator.set_observation_mode(mode)
set_observation_mode(m, s, mode) ==
    LET b == Simulator_set_observation_mode(s, mode) IN
    IF b.exc # NoExc
    THEN b
    ELSE IF b.s.observation_mode = PROGRAM_LEVEL /\ ~m.has_state_valuations
    THEN Result(b.s, ErrNoValuations, NoRet)
    ELSE IF m.has_state_valuations
    THEN Result([b.s EXCEPT !.state_valuations = "valuations"], NoExc, NoRet)
    ELSE IF m.absent_valuations = "raises"
    THEN Result(b.s, ErrModelValuations, NoRet)
    ELSE Result([b.s EXCEPT !.state_valuations = "dangling"], NoExc, NoRet)

\* create_simulator(model, seed): "SparseSimulator" when one is returned,
\* "None" when the function returns without a value, "raised" when it raises
create_simulator(m) ==
    IF m.isModelBase
    THEN IF m.is_sparse_model THEN "SparseSimulator" ELSE "None"
    ELSE "raised"

---------------------------------------------------------------------------
(* The state machine: a caller builds the simulators with the factory and  *)
(* then calls their methods, one call at a time.                           *)

\* the arguments the caller passes
SeedArgs == {NoSeed} \cup Seeds
ActionStrings == {"a", "b", "_act_0", "nope"}
ActionArgs ==
    {PyNone} \cup {PyInt(n) : n \in -1 .. MaxIndex}
             \cup {PyStr(l) : l \in ActionStrings} \cup {PyBool(TRUE)}
ModeArgs == SimulatorObservationMode \cup SimulatorActionMode \cup {"not a mode"}

\* a call starts with an empty record of engine operations
Begin(s) == [s EXCEPT !.calls = <<>>]

\* a call ends by returning ret or raising exc
Commit(r) == [r.s EXCEPT !.exc = r.exc, !.ret = r.ret]

\* the mode settings of a simulator
Modes(s) == <<s.observation_mode, s.action_mode, s.full_observe, s.state_valuations>>

NoRestart == [seen |-> FALSE, moved |-> FALSE, ret |-> NoRet]

\* history kept across a call that took sim from s to s2
History(op, s, s2) ==
    IF Modes(s2) # Modes(s) THEN NoRestart
    ELSE IF op = "restart" /\ s2.exc = NoExc /\ ~first_restart.seen
    THEN [seen |-> TRUE, moved |-> FALSE, ret |-> s2.ret]
    ELSE IF op \in {"step", "random_step"} /\ s2.exc = NoExc /\ first_restart.seen
    THEN [first_restart EXCEPT !.moved = TRUE]
    ELSE first_restart

Init ==
    /\ model \in Models
    /\ first_restart = NoRestart
    /\ created = "uncreated"
    /\ call = [op |-> "none", arg |-> PyNone]
    /\ sim = Simulator_init(NoSeed)
    /\ twin = Simulator_init(NoSeed)

\* Every action takes a flag: whether the second simulator exists and gets
\* the same call (paired), or only the first simulator is driven.

CreateSimulator(paired) ==
    /\ created = "uncreated"
    /\ \E seed \in SeedArgs :
          /\ created' = create_simulator(model)
          /\ call' = [op |-> "create_simulator",
                      arg |-> IF seed = NoSeed THEN PyNone ELSE PyInt(seed)]
          /\ IF create_simulator(model) = "SparseSimulator"
             THEN \E r1, r2 \in 0 .. RngMod - 1 :
                     /\ sim' = SparseSimulator_init(model, seed, r1)
                     /\ twin' = IF paired
                                THEN SparseSimulator_init(model, seed, r2)
                                ELSE twin
             ELSE UNCHANGED <<sim, twin>>
    /\ UNCHANGED <<model, first_restart>>

Step(paired) ==
    /\ created = "SparseSimulator"
    /\ \E action \in ActionArgs :
          /\ call' = [op |-> "step", arg |-> action]
          /\ sim' = Commit(step(model, Begin(sim), action))
          /\ twin' = IF paired THEN Commit(step(model, Begin(twin), action)) ELSE twin
          /\ first_restart' = History("step", sim, sim')
    /\ UNCHANGED <<model, created>>

RandomStep(paired) ==
    /\ created = "SparseSimulator"
    /\ call' = [op |-> "random_step", arg |-> PyNone]
    /\ sim' = Commit(random_step(model, Begin(sim)))
    /\ twin' = IF paired THEN Commit(random_step(model, Begin(twin))) ELSE twin
    /\ first_restart' = History("random_step", sim, sim')
    /\ UNCHANGED <<model, created>>

Restart(paired) ==
    /\ created = "SparseSimulator"
    /\ call' = [op |-> "restart", arg |-> PyNone]
    /\ sim' = Commit(restart(model, Begin(sim)))
    /\ twin' = IF paired THEN Commit(restart(model, Begin(twin))) ELSE twin
    /\ first_restart' = History("restart", sim, sim')
    /\ UNCHANGED <<model, created>>

AvailableActions(paired) ==
    /\ created = "SparseSimulator"
    /\ call' = [op |-> "available_actions", arg |-> PyNone]
    /\ sim' = Commit(available_actions(model, Begin(sim)))
    /\ twin' = IF paired THEN Commit(available_actions(model, Begin(twin))) ELSE twin
    /\ first_restart' = History("available_actions", sim, sim')
    /\ UNCHANGED <<model, created>>

NrAvailableActions(paired) ==
    /\ created = "SparseSimulator"
    /\ call' = [op |-> "nr_available_actions", arg |-> PyNone]
    /\ sim' = Commit(Result(Begin(sim), NoExc, nr_available_actions(model, sim)))
    /\ twin' = IF paired
               THEN Commit(Result(Begin(twin), NoExc, nr_available_actions(model, twin)))
               ELSE twin
    /\ first_restart' = History("nr_available_actions", sim, sim')
    /\ UNCHANGED <<model, created>>

IsDone(paired) ==
    /\ created = "SparseSimulator"
    /\ call' = [op |-> "is_done", arg |-> PyNone]
    /\ sim' = Commit(is_done(model, Begin(sim)))
    /\ twin' = IF paired THEN Commit(is_done(model, Begin(twin))) ELSE twin
    /\ first_restart' = History("is_done", sim, sim')
    /\ UNCHANGED <<model, created>>

SetObservationMode(paired) ==
    /\ created = "SparseSimulator"
    /\ \E mode \in ModeArgs :
          /\ call' = [op |-> "set_observation_mode", arg |-> PyStr(mode)]
          /\ sim' = Commit(set_observation_mode(model, Begin(sim), mode))
          /\ twin' = IF paired
                     THEN Commit(set_observation_mode(model, Begin(twin), mode))
                     ELSE twin
          /\ first_restart' = History("set_observation_mode", sim, sim')
    /\ UNCHANGED <<model, created>>

SetActionMode(paired) ==
    /\ created = "SparseSimulator"
    /\ \E mode \in ModeArgs :
          /\ call' = [op |-> "set_action_mode", arg |-> PyStr(mode)]
          /\ sim' = Commit(set_action_mode(model, Begin(sim), mode))
          /\ twin' = IF paired
                     THEN Commit(set_action_mode(model, Begin(twin), mode))
                     ELSE twin
          /\ first_restart' = History("set_action_mode", sim, sim')
    /\ UNCHANGED <<model, created>>

SetFullObservability(paired) ==
    /\ created = "SparseSimulator"
    /\ \E value \in BOOLEAN :
          /\ call' = [op |-> "set_full_observability", arg |-> PyBool(value)]
          /\ sim' = Commit(set_full_observability(model, Begin(sim), value))
          /\ twin' = IF paired
                     THEN Commit(set_full_observability(model, Begin(twin), value))
                     ELSE twin
          /\ first_restart' = History("set_full_observability", sim, sim')
    /\ UNCHANGED <<model, created>>

\* one simulator
Next ==
    \/ Step(FALSE)
    \/ RandomStep(FALSE)
    \/ Restart(FALSE)
    \/ AvailableActions(FALSE)
    \/ NrAvailableActions(FALSE)
    \/ IsDone(FALSE)
    \/ SetFullObservability(FALSE)
    \/ SetActionMode(FALSE)
    \/ SetObservationMode(FALSE)
    \/ CreateSimulator(FALSE)

Spec == Init /\ [][Next]_vars

\* two simulators on one Model that has all the optional metadata, built
\* with the same seed argument and given the same calls
PairedModels ==
    { m \in Models : m.is_sparse_model /\ m.has_choice_labeling /\ m.has_state_valuations }

PairedInit ==
    /\ Init
    /\ model \in PairedModels

PairedNext ==
    \/ Step(TRUE)
    \/ RandomStep(TRUE)
    \/ Restart(TRUE)
    \/ AvailableActions(TRUE)
    \/ NrAvailableActions(TRUE)
    \/ IsDone(TRUE)
    \/ SetFullObservability(TRUE)
    \/ SetActionMode(TRUE)
    \/ SetObservationMode(TRUE)
    \/ CreateSimulator(TRUE)

PairedSpec == PairedInit /\ [][PairedNext]_vars

---------------------------------------------------------------------------
(* Properties *)

\* the engine operations a call made
StepCall(i) == << <<"step", i>> >>
ResetCall == << <<"reset_to_initial_state", 0>> >>

\* the simulator fields a rejected call must leave alone
SameEngineAndModes(a, b) ==
    /\ a.current_state = b.current_state
    /\ a.last_reward = b.last_reward
    /\ Modes(a) = Modes(b)

\* two calls ended the same way: same exception or same returned value, same
\* engine operations, same engine state
SameOutcome(a, b) ==
    /\ a.exc = b.exc
    /\ a.calls = b.calls
    /\ a.current_state = b.current_state
    /\ a.last_reward = b.last_reward
    /\ a.rng = b.rng
    /\ (a.exc = NoExc => a.ret = b.ret)

\* C1: whenever step(action) raises, the engine's current state and last
\* reward, the observation mode, the action mode, the full-observability flag
\* and the cached valuations are what they were before the call.
C1_RejectedStepChangesNothing ==
    [][ (call'.op = "step" /\ sim'.exc # NoExc) => SameEngineAndModes(sim', sim) ]_vars

\* C2: set_observation_mode(PROGRAM_LEVEL) on a Model without state
\* valuations raises and leaves the observation mode as it was.
C2_FailedProgramLevelKeepsMode ==
    [][ ( /\ call'.op = "set_observation_mode"
          /\ call'.arg = PyStr(PROGRAM_LEVEL)
          /\ ~model.has_state_valuations )
        => (sim'.exc # NoExc /\ sim'.observation_mode = sim.observation_mode) ]_vars

\* C3: on a Model with choice labeling, in named mode, the name at every
\* position k of available_actions(), passed to step(), makes the engine take
\* the choice that step(k) takes in index mode from the same state.
C3_NameResolvesToItsOffset ==
    [][ ( /\ call'.op = "step"
          /\ call'.arg.t = "str"
          /\ sim.action_mode = GLOBAL_NAMES
          /\ model.has_choice_labeling
          /\ available_actions(model, sim).exc = NoExc )
        => \A k \in 1 .. Len(available_actions(model, sim).ret) :
              available_actions(model, sim).ret[k] = call'.arg
              => sim'.calls =
                   step(model, Begin([sim EXCEPT !.action_mode = INDEX_LEVEL]),
                        PyInt(k - 1)).s.calls ]_vars

\* C4: in index mode step(n) with an integer n calls the engine, with n, only
\* if 0 <= n < nr_available_actions(); for any other integer it raises and the
\* engine's step is not called.
C4_IndexOutOfRangeNeverReachesEngine ==
    [][ (call'.op = "step" /\ call'.arg.t = "int" /\ sim.action_mode = INDEX_LEVEL)
        => IF 0 <= call'.arg.i /\ call'.arg.i < nr_available_actions(model, sim)
           THEN sim'.calls = StepCall(call'.arg.i)
           ELSE sim'.exc # NoExc /\ sim'.calls = <<>> ]_vars

\* C5: step() without an action calls the engine with index 0 exactly when
\* the Model is deterministic or one action is available at the current state;
\* otherwise it raises the must-specify error and the engine is not touched.
C5_OmittedActionResolution ==
    [][ (call'.op = "step" /\ call'.arg = PyNone)
        => IF ~is_nondeterministic_model(model) \/ nr_available_actions(model, sim) = 1
           THEN sim'.calls = StepCall(0)
           ELSE /\ sim'.exc = ErrMustSpecify
                /\ sim'.calls = <<>>
                /\ sim'.current_state = sim.current_state ]_vars

\* a nondeterministic model stepped without an action at a state that has one
\* action
C5_Witness ==
    /\ call.op = "step" /\ call.arg = PyNone
    /\ is_nondeterministic_model(model)
    /\ sim.calls = StepCall(0)
    /\ sim.exc = NoExc

\* C6 as claimed: on a deterministic Model step() without an action never
\* raises and ends exactly as step(0) from the same state, in every mode.
C6_OmittedNeverFailsAndEqualsStep0 ==
    [][ (call'.op = "step" /\ call'.arg = PyNone /\ ~is_nondeterministic_model(model))
        => /\ sim'.exc = NoExc
           /\ SameOutcome(sim', Commit(step(model, Begin(sim), PyInt(0)))) ]_vars

\* C6 amended: on a deterministic Model step() without an action is never
\* rejected at action resolution, it always calls the engine's step once with
\* index 0; and in index mode it ends exactly as step(0) from the same state
\* (same exception or same StepResult, same engine index, same engine state).
C6_OmittedResolvesAndEqualsStep0InIndexMode ==
    [][ (call'.op = "step" /\ call'.arg = PyNone /\ ~is_nondeterministic_model(model))
        => /\ sim'.calls = StepCall(0)
           /\ sim'.exc # ErrMustSpecify
           /\ (sim.action_mode = INDEX_LEVEL
               => SameOutcome(sim', Commit(step(model, Begin(sim), PyInt(0))))) ]_vars

\* a deterministic model stepped without an action, in index mode, returning
\* a StepResult
C6_Witness ==
    /\ call.op = "step" /\ call.arg = PyNone
    /\ ~is_nondeterministic_model(model)
    /\ sim.action_mode = INDEX_LEVEL
    /\ sim.exc = NoExc
    /\ sim.current_state # InitialState

\* C7: set_action_mode(GLOBAL_NAMES) on a Model without choice labeling raises
\* and keeps the action mode, so named mode implies choice labeling.
C7_NamedModeNeedsChoiceLabeling ==
    [][ /\ ( ( /\ call'.op = "set_action_mode"
               /\ call'.arg = PyStr(GLOBAL_NAMES)
               /\ ~model.has_choice_labeling )
             => (sim'.exc # NoExc /\ sim'.action_mode = sim.action_mode) )
        /\ (sim'.action_mode = GLOBAL_NAMES => model.has_choice_labeling) ]_vars

\* C8: create_simulator returns a simulator exactly for sparse models and
\* raises for every other model.
C8_FactoryReturnsSimulatorOrRaises ==
    created # "uncreated"
    => IF model.is_sparse_model
       THEN created = "SparseSimulator"
       ELSE created = "raised"

\* C9: two simulators on one Model, built with the same explicit seed and
\* given the same calls, have the seed applied exactly once each and end every
\* call the same way: same StepResult or exception, same engine state.
C9_SameSeedSameResults ==
    (created = "SparseSimulator" /\ sim.seed # NoSeed /\ Modes(sim) = Modes(twin))
    => /\ sim.seed_calls = 1
       /\ twin.seed_calls = 1
       /\ SameOutcome(sim, twin)

\* both simulators have stepped through a probabilistic choice and on to
\* state 4
C9_Witness ==
    /\ created = "SparseSimulator"
    /\ sim.seed # NoSeed
    /\ call.op = "step"
    /\ sim.exc = NoExc
    /\ twin.exc = NoExc
    /\ sim.current_state = 4
    /\ twin.calls # <<>>

\* C10: restart() leaves the engine at the initial state, reports the
\* engine's reward at reset, and returns what the first restart() since the
\* modes last changed returned, whatever calls came in between.
C10_RestartReturnsInitialResult ==
    call.op = "restart"
    => /\ sim.current_state = InitialState
       /\ sim.calls = ResetCall
       /\ (sim.exc = NoExc => sim.ret.reward = sim.last_reward)
       /\ (sim.exc = NoExc /\ first_restart.seen => sim.ret = first_restart.ret)

\* a restart() after an earlier restart() and a step taken since
C10_Witness ==
    /\ call.op = "restart"
    /\ sim.exc = NoExc
    /\ first_restart.seen
    /\ first_restart.moved

\* C11: is_done() returns whether the Model classifies the engine's current
\* state as a sink; and once the engine is at a sink, every call other than
\* restart() leaves it at a sink, a successful step reporting the same state
\* under full observability and state-level mode.
C11_IsDoneIsSinkAndStable ==
    [][ /\ (call'.op = "is_done"
            => /\ sim'.exc = NoExc
               /\ sim'.ret = is_sink_state(model, sim'.current_state)
               /\ sim'.current_state = sim.current_state)
        /\ ( ( /\ created = "SparseSimulator"
               /\ is_sink_state(model, sim.current_state)
               /\ call'.op # "restart" )
             => /\ is_sink_state(model, sim'.current_state)
                /\ ( ( /\ call'.op \in {"step", "random_step"}
                       /\ sim'.exc = NoExc
                       /\ sim.full_observe
                       /\ sim.observation_mode = STATE_LEVEL )
                     => sim'.ret.obs = PyInt(sim.current_state) ) ) ]_vars

\* a successful step taken inside the sink (its row's reward is 0, the rows
\* entering the sink have reward 1)
C11_Witness ==
    /\ call.op = "step"
    /\ sim.exc = NoExc
    /\ is_sink_state(model, sim.current_state)
    /\ sim.last_reward = 0

\* C12: in index mode available_actions() returns 0 .. n-1 where n is 1 for a
\* deterministic Model and otherwise the Model's action count at the engine's
\* current state at the time of the call; nr_available_actions() returns n.
C12_IndexActionsMatchCurrentState ==
    /\ ( (call.op = "available_actions" /\ sim.action_mode = INDEX_LEVEL)
         => /\ sim.exc = NoExc
            /\ Len(sim.ret) =
                 IF is_nondeterministic_model(model)
                 THEN get_nr_available_actions(model, sim.current_state)
                 ELSE 1
            /\ \A k \in 1 .. Len(sim.ret) : sim.ret[k] = PyInt(k - 1) )
    /\ ( call.op = "nr_available_actions"
         => sim.ret = IF is_nondeterministic_model(model)
                      THEN get_nr_available_actions(model, sim.current_state)
                      ELSE 1 )

\* available_actions() in index mode at the sink of a nondeterministic model,
\* which has one action while the initial state has two
C12_Witness ==
    /\ call.op = "available_actions"
    /\ sim.action_mode = INDEX_LEVEL
    /\ is_nondeterministic_model(model)
    /\ sim.current_state = 3
    /\ sim.exc = NoExc
    /\ Len(sim.ret) = 1

\* C13: in named mode on a Model without choice labeling, available_actions()
\* and step() with any action given raise the choice-labeling error without
\* any engine operation; the engine's state is unchanged.
C13_NamedModeWithoutLabelingFails ==
    [][ ( /\ created = "SparseSimulator"
          /\ sim.action_mode = GLOBAL_NAMES
          /\ ~model.has_choice_labeling
          /\ \/ call'.op = "available_actions"
             \/ (call'.op = "step" /\ call'.arg # PyNone) )
        => /\ sim'.exc = ErrNoChoiceLabeling
           /\ sim'.calls = <<>>
           /\ sim'.current_state = sim.current_state
           /\ sim'.last_reward = sim.last_reward
           /\ sim'.rng = sim.rng ]_vars

\* step("a") rejected for lack of choice labeling, away from the initial state
C13_Witness ==
    /\ call.op = "step"
    /\ call.arg = PyStr("a")
    /\ sim.exc = ErrNoChoiceLabeling
    /\ sim.current_state # InitialState

\* the exceptions raised by the reporting stage
ReportErrors == {ErrNotPomdp, ErrProgramObs, ErrNoneGetJson}

\* the last call was a step, random_step or restart that got to reporting
Reported ==
    /\ call.op \in {"step", "random_step", "restart"}
    /\ (sim.exc = NoExc \/ sim.exc \in ReportErrors)

\* C14: the observation of step/random_step/restart is decided by the
\* full-observability flag, the observation mode and the engine's current
\* state: the state identifier (true, state-level), the state's valuation
\* record (true, program-level), the Model's observation class when the Model
\* is a POMDP and a failure otherwise (false, state-level), the not-implemented
\* error (false, program-level); the reward is the engine's last reward.
C14_ObservationTable ==
    Reported
    => /\ (sim.full_observe /\ sim.observation_mode = STATE_LEVEL
           => sim.exc = NoExc /\ sim.ret.obs = PyInt(sim.current_state))
       /\ (sim.full_observe /\ sim.observation_mode = PROGRAM_LEVEL
           => sim.exc = NoExc /\ sim.ret.obs = get_json(sim.current_state))
       /\ (~sim.full_observe /\ sim.observation_mode = STATE_LEVEL
           => IF model.model_type = "POMDP"
              THEN sim.exc = NoExc
                   /\ sim.ret.obs = get_observation(model, sim.current_state)
              ELSE sim.exc # NoExc)
       /\ (~sim.full_observe /\ sim.observation_mode = PROGRAM_LEVEL
           => sim.exc = ErrProgramObs)
       /\ (sim.exc = NoExc => sim.ret.reward = sim.last_reward)

\* some choice at the current state of s carries more than one label
MultiLabelAt(m, s) ==
    \E o \in 0 .. nr_available_actions(m, s) - 1 :
        Cardinality(get_labels_of_choice(m,
            get_choice_index(m, s.current_state, o))) > 1

\* C15: in named mode on a Model with choice labeling, available_actions()
\* returns one name per action offset, in order: "_act_{offset}" for a choice
\* without label, the label of a choice with one label; when a choice at the
\* current state has more than one label it raises the unsupported-label
\* error, and so does step() with any action given, without stepping.
C15_NamedActionsPerOffset ==
    [][ (created = "SparseSimulator" /\ sim.action_mode = GLOBAL_NAMES
         /\ model.has_choice_labeling)
        => /\ ( call'.op = "available_actions"
                => IF MultiLabelAt(model, sim)
                   THEN sim'.exc = ErrMultiLabel /\ sim'.ret = NoRet
                   ELSE /\ sim'.exc = NoExc
                        /\ Len(sim'.ret) = nr_available_actions(model, sim)
                        /\ \A k \in 1 .. Len(sim'.ret) :
                             LET labels == get_labels_of_choice(model,
                                             get_choice_index(model,
                                                 sim.current_state, k - 1))
                             IN /\ labels = {}
                                   => sim'.ret[k] = PyStr("_act_" \o ToString(k - 1))
                                /\ \A l \in labels : sim'.ret[k] = PyStr(l) )
           /\ ( (call'.op = "step" /\ call'.arg # PyNone /\ MultiLabelAt(model, sim))
                => /\ sim'.exc = ErrMultiLabel
                   /\ sim'.calls = <<>>
                   /\ sim'.current_state = sim.current_state ) ]_vars

\* available_actions() returned names at the state whose first choice has no
\* label
C15_Witness ==
    /\ call.op = "available_actions"
    /\ sim.action_mode = GLOBAL_NAMES
    /\ sim.exc = NoExc
    /\ sim.current_state = 2
    /\ sim.ret[1] = PyStr("_act_0")

\* C16: a given action that does not fit the action mode is rejected without
\* stepping: a non-integer in index mode, an integer in named mode, and in
\* named mode a string that is none of the names available_actions() returns
\* (the could-not-find error).
C16_MismatchedActionRejected ==
    [][ (created = "SparseSimulator" /\ call'.op = "step" /\ call'.arg # PyNone)
        => /\ ( (sim.action_mode = INDEX_LEVEL /\ call'.arg.t # "int")
                => sim'.exc = ErrActionType )
           /\ ( (sim.action_mode = GLOBAL_NAMES /\ call'.arg.t = "int")
                => sim'.exc # NoExc )
           /\ ( ( /\ sim.action_mode = GLOBAL_NAMES
                  /\ call'.arg.t = "str"
                  /\ available_actions(model, sim).exc = NoExc
                  /\ \A k \in 1 .. Len(available_actions(model, sim).ret) :
                        available_actions(model, sim).ret[k] # call'.arg )
                => sim'.exc = ErrNotFound )
           /\ ( ( \/ (sim.action_mode = INDEX_LEVEL /\ call'.arg.t # "int")
                  \/ (sim.action_mode = GLOBAL_NAMES /\ call'.arg.t = "int")
                  \/ sim'.exc = ErrNotFound )
                => /\ sim'.calls = <<>>
                   /\ sim'.current_state = sim.current_state
                   /\ sim'.last_reward = sim.last_reward ) ]_vars

\* an integer given in named mode on a Model with choice labeling, rejected
C16_Witness ==
    /\ call.op = "step"
    /\ call.arg.t = "int"
    /\ sim.action_mode = GLOBAL_NAMES
    /\ model.has_choice_labeling
    /\ sim.exc = ErrNotFound

\* C17: when the engine's step or random_step reports failure, the call
\* raises (the assert on the engine's flag) and returns no StepResult, and the
\* engine operation was invoked exactly once.
C17_EngineFailureIsFatal ==
    [][ ( /\ created = "SparseSimulator"
          /\ \/ /\ call'.op = "step"
                /\ Len(sim'.calls) >= 1
                /\ EngineStep(model, Begin(sim), sim'.calls[1][2]).exc = NoExc
                /\ ~EngineStep(model, Begin(sim), sim'.calls[1][2]).ret
             \/ /\ call'.op = "random_step"
                /\ ~EngineRandomStep(model, Begin(sim)).ret )
        => /\ sim'.exc = ErrCheck
           /\ sim'.ret = NoRet
           /\ Len(sim'.calls) = 1 ]_vars

\* a step() that the engine failed
C17_Witness ==
    /\ call.op = "step"
    /\ sim.exc = ErrCheck
    /\ Len(sim.calls) = 1

\* C18: the cached valuations are present only if the observation mode is
\* program-level and the Model has state valuations; they are absent after
\* construction and after a successful set_observation_mode(STATE_LEVEL).
C18_ValuationsCachedOnlyInProgramLevel ==
    created = "SparseSimulator"
    => /\ (sim.state_valuations # "None"
           => sim.observation_mode = PROGRAM_LEVEL /\ model.has_state_valuations)
       /\ (call.op = "create_simulator" => sim.state_valuations = "None")
       /\ ( ( /\ call.op = "set_observation_mode"
              /\ call.arg = PyStr(STATE_LEVEL)
              /\ sim.exc = NoExc )
            => sim.state_valuations = "None" )

\* C19: whenever the observation mode is PROGRAM_LEVEL the Model has state
\* valuations and they are cached, so reporting never reads a missing
\* valuations reference.
C19_ProgramLevelHasValuations ==
    /\ ( (created = "SparseSimulator" /\ sim.observation_mode = PROGRAM_LEVEL)
         => model.has_state_valuations /\ sim.state_valuations = "valuations" )
    /\ sim.exc # ErrNoneGetJson

Queries == {"available_actions", "nr_available_actions", "is_done"}
Setters == {"set_observation_mode", "set_action_mode", "set_full_observability"}
Movers == {"step", "random_step", "restart"}

\* C20: the queries and the setters, succeeding or failing, invoke no engine
\* operation and leave the engine's current state and last reward alone; step,
\* random_step and restart leave the observation mode, the action mode, the
\* full-observability flag, the cached valuations and the seed alone.
C20_Frame ==
    [][ created = "SparseSimulator"
        => /\ ( call'.op \in Queries \cup Setters
                => /\ sim'.current_state = sim.current_state
                   /\ sim'.last_reward = sim.last_reward
                   /\ sim'.rng = sim.rng
                   /\ sim'.calls = <<>> )
           /\ ( call'.op \in Movers
                => /\ Modes(sim') = Modes(sim)
                   /\ sim'.seed = sim.seed ) ]_vars

\* a setter that failed after the engine had moved and earned a reward
C20_Witness ==
    /\ call.op = "set_observation_mode"
    /\ sim.exc # NoExc
    /\ sim.current_state # InitialState
    /\ sim.last_reward # 0

====
